---- MODULE Spec2Model ----
(***************************************************************************)
(* The tool-calling relay loop of examples/python-chatbot/chatbot.py       *)
(* (function main), as a state machine.                                    *)
(*                                                                         *)
(* A Python text is a sequence of tokens: "sp" is a whitespace character,  *)
(* "w" a visible word, "[ERROR]" and "[NO_DATA]" the two marker            *)
(* substrings the code searches for.  The value None is the one-token      *)
(* sequence PyNone, which no text contains.                                *)
(*                                                                         *)
(* The second program is create_py_ini of                                  *)
(* examples/python-chatbot/fix_py_launcher.py; its state is in the         *)
(* variables below `error`, which the chatbot leaves alone, and its        *)
(* specification is LauncherSpec.  A py.ini text is a sequence of tokens:  *)
(* "\n" is the newline, every other token is the body of one line.         *)
(***************************************************************************)
EXTENDS Integers, Sequences, FiniteSets, TLC

VARIABLES
    pc,                 \* position of main() between its blocking calls
    messages,           \* the transcript (chatbot.py:42)
    user_input,         \* the stripped input line (chatbot.py:62)
    assistant_message,  \* response.choices[0].message (chatbot.py:81, 122)
    idx,                \* position of the for loop over tool_calls (chatbot.py:152)
    tool_results,       \* what call_tool did for each ToolCall of the turn (chatbot.py:160)
    llm_log,            \* the completion requests issued so far
    mcp_calls,          \* number of call_tool dispatches issued so far
    stdout,             \* the "Assistant:" lines printed so far
    closed,             \* number of mcp_client.close() calls
    error,              \* the exception caught at session scope, "none" if none
    ini_pc,             \* position of create_py_ini (fix_py_launcher.py:31)
    environ,            \* the environment variables that are set (fix_py_launcher.py:16, 25)
    ini_path,           \* get_py_ini_path() (fix_py_launcher.py:33)
    py_ini,             \* the file at ini_path, NoFile if there is none
    existing_content,   \* fix_py_launcher.py:43
    ini_result,         \* what create_py_ini returned, "none" before it returns
    original            \* the file at ini_path when create_py_ini was called

chatbot_vars == <<pc, messages, user_input, assistant_message, idx, tool_results,
                  llm_log, mcp_calls, stdout, closed, error>>

launcher_vars == <<ini_pc, environ, ini_path, py_ini, existing_content,
                   ini_result, original>>

vars == <<chatbot_vars, launcher_vars>>

\* there is no file at the path
NoFile == <<"<absent>">>

\* fix_py_launcher.py is not run
LauncherNotRun ==
    /\ ini_pc = "idle"
    /\ environ = {}
    /\ ini_path = "None"
    /\ py_ini = NoFile
    /\ existing_content = <<>>
    /\ ini_result = "none"
    /\ original = NoFile

----------------------------------------------------------------------------
(* Bounds of the exploration *)

\* a new turn starts only while the transcript has fewer entries than this
MaxMessages == 5
\* number of ToolCalls the LLM issues in a session
MaxCalls == 2

----------------------------------------------------------------------------
(* Python texts *)

PyNone == <<"<None>">>

\* truth value of a `str | None`
Truthy(s) == s # <<>> /\ s # PyNone

RECURSIVE LStrip(_)
LStrip(s) == IF s # <<>> /\ Head(s) = "sp" THEN LStrip(Tail(s)) ELSE s

RECURSIVE RStrip(_)
RStrip(s) ==
    IF s # <<>> /\ s[Len(s)] = "sp" THEN RStrip(SubSeq(s, 1, Len(s) - 1)) ELSE s

\* str.strip()
Strip(s) == RStrip(LStrip(s))

LowerTok(t) ==
    CASE t = "QUIT" -> "quit"
      [] t = "Exit" -> "exit"
      [] t = "Q"    -> "q"
      [] t = "John" -> "john"
      [] OTHER      -> t

\* str.lower()
Lower(s) == [k \in 1..Len(s) |-> LowerTok(s[k])]

\* `marker in s`
Contains(s, marker) == \E k \in 1..Len(s) : s[k] = marker

\* str(x)
Str(x) == IF x = PyNone THEN <<"None">> ELSE x

----------------------------------------------------------------------------
(* The transcript's entries.  An assistant entry without the "tool_calls" *)
(* key has tool_calls = <<>>; a key the entry does not have holds its      *)
(* empty value.                                                            *)

Message(role, content, tool_calls, tool_call_id, name) ==
    [role |-> role, content |-> content, tool_calls |-> tool_calls,
     tool_call_id |-> tool_call_id, name |-> name]

SystemPrompt == <<"w", "CRITICAL RULES">>
UseToolsReminder == <<"w", "You MUST use the available tools">>
NoDataReminder == <<"IMPORTANT", "[NO_DATA]", "w", "[ERROR]", "Do NOT make up">>

SystemMessage(content) == Message("system", content, <<>>, 0, "")
UserMessage(content) == Message("user", content, <<>>, 0, "")

\* chatbot.py:82-98 and 124-140: the entry stored for a response
AssistantEntry(am) == Message("assistant", am.content, am.tool_calls, 0, "")

\* chatbot.py:200-205 and 208-213
ToolMessage(tool_call, content) ==
    Message("tool", content, <<>>, tool_call.id, tool_call.name)

\* chatbot.py:244-247: the final response is stored without tool calls
FinalEntry(content) == Message("assistant", content, <<>>, 0, "")

NO_DATA_TEXT == <<"[NO_DATA]", "sp", "w">>
ERROR_TEXT(e) == <<"[ERROR]", "sp", "w">> \o e \o <<"w">>

----------------------------------------------------------------------------
(* What the environment supplies *)

\* lines typed by the user, before .strip()
InputLines ==
    { <<>>, <<"sp">>, <<"quit">>, <<"sp", "Exit">>, <<"Q", "sp">>,
      <<"hello">>, <<"sp", "John", "sp">> }

\* chatbot.py:105 (the words of the list the input lines can hold)
bible_keywords == {"bible", "scripture", "verse", "john", "matthew", "word"}

\* chatbot.py:63
exit_words == { <<"quit">>, <<"exit">>, <<"q">> }

\* the heuristic that takes every input for a Bible question
MatchesKeyword_Always(text) == text = text

\* chatbot.py:107: any(keyword in user_question_lower for keyword in bible_keywords)
MatchesKeyword(text) == \E k \in bible_keywords : Contains(Lower(text), k)

\* message.content of a completion without tool calls: None, the empty text,
\* a text
Contents == { PyNone, <<>>, <<"w">> }

\* message.content of a completion that carries tool calls
ContentsWithCalls == { PyNone, <<"w">> }

\* message.content of the final completion
FinalContents == { PyNone, <<"w">> }

ToolNames == { "fetch_scripture" }

\* function.arguments: the text of a JSON object, or a text that is no JSON
ArgPayloads == { "{\"reference\":\"John 3:16\"}", "{\"reference\":" }

\* json.loads raises on text that is no JSON (chatbot.py:154)
JsonLoadsRaises(arguments) == arguments = "{\"reference\":"

\* the identifiers of the k ToolCalls of one response: distinct, in any order
IdSeqs(k) ==
    { [j \in 1..k |-> j], [j \in 1..k |-> k + 1 - j] }

ToolCallSeqs(k) ==
    { [j \in 1..k |-> [id |-> ids[j], name |-> nm, arguments |-> args[j]]] :
        ids \in IdSeqs(k), nm \in ToolNames, args \in [1..k -> ArgPayloads] }

\* the messages a completion with tools can return, with up to n ToolCalls
Responses(n) ==
    { [content |-> c, tool_calls |-> <<>>] : c \in Contents }
    \cup { [content |-> c, tool_calls |-> tcs] :
             c \in ContentsWithCalls, tcs \in UNION { ToolCallSeqs(k) : k \in 1..n } }

\* texts of the exceptions the external calls raise
ExceptionTexts == { <<"w">> }

(* A tool result is None or a mapping.  content: absent, a list of items,  *)
(* or one item that is no list; text: absent, a text, or a value that is   *)
(* no text.  An item is a mapping (with or without "text"), a bare string  *)
(* or a value of another kind.                                             *)
DictItem(type, text) == [kind |-> "dict", type |-> type, hasText |-> TRUE, text |-> text]
TextlessItem(type) == [kind |-> "dict", type |-> type, hasText |-> FALSE, text |-> <<>>]
StrItem(text) == [kind |-> "str", type |-> "", hasText |-> FALSE, text |-> text]
OtherItem == [kind |-> "other", type |-> "", hasText |-> FALSE, text |-> <<>>]

Items ==
    { DictItem("text", <<"w">>), DictItem("text", <<"sp">>), DictItem("text", <<>>),
      DictItem("", <<"w">>), TextlessItem("image"), StrItem(<<"w">>), StrItem(<<>>),
      OtherItem }

\* a text that holds the marker "[ERROR]", as a tool's data may
MarkedItem == DictItem("text", <<"[ERROR]">>)

ItemLists ==
    { <<>> } \cup { <<it>> : it \in Items }
    \cup { <<DictItem("text", <<"w">>), it>> :
             it \in { TextlessItem("image"), OtherItem, MarkedItem } }
    \cup { <<TextlessItem("image"), DictItem("text", <<"sp">>)>>,
           <<OtherItem, StrItem(<<"w">>)>> }

ResultContents ==
    { [shape |-> "absent", items |-> <<>>] }
    \cup { [shape |-> "list", items |-> l] : l \in ItemLists }
    \cup { [shape |-> "single", items |-> <<it>>] : it \in Items }

ResultTexts ==
    { [present |-> FALSE, isStr |-> TRUE, val |-> <<>>],
      [present |-> TRUE, isStr |-> TRUE, val |-> <<>>],
      [present |-> TRUE, isStr |-> TRUE, val |-> <<"sp">>],
      [present |-> TRUE, isStr |-> TRUE, val |-> <<"w">>],
      [present |-> TRUE, isStr |-> FALSE, val |-> <<"w">>] }

NoneResult == [isNone |-> TRUE, content |-> [shape |-> "absent", items |-> <<>>],
               text |-> [present |-> FALSE, isStr |-> TRUE, val |-> <<>>]]

\* the contents a result with a "text" of its own comes with
ContentsBesideText ==
    { [shape |-> "absent", items |-> <<>>],
      [shape |-> "list", items |-> <<>>],
      [shape |-> "list", items |-> <<TextlessItem("image")>>],
      [shape |-> "list", items |-> <<DictItem("text", <<"w">>)>>] }

ToolResults ==
    { NoneResult }
    \cup { [isNone |-> FALSE, content |-> c, text |-> t] :
             c \in ResultContents, t \in { x \in ResultTexts : ~x.present } }
    \cup { [isNone |-> FALSE, content |-> c, text |-> t] :
             c \in ContentsBesideText, t \in ResultTexts }

\* what a call_tool dispatch does: it raises, or it returns a result
CallOutcomes ==
    { [raised |-> TRUE, e |-> e, result |-> NoneResult] : e \in ExceptionTexts }
    \cup { [raised |-> FALSE, e |-> <<>>, result |-> r] : r \in ToolResults }

----------------------------------------------------------------------------
(* The extraction of a result's text, chatbot.py:164-185 *)

\* truth value of a content item
ItemTruthy(it) == IF it.kind = "str" THEN it.text # <<>> ELSE TRUE

\* chatbot.py:165: if result.get("content")
ContentTruthy(c) ==
    CASE c.shape = "absent" -> FALSE
      [] c.shape = "list"   -> c.items # <<>>
      [] OTHER              -> ItemTruthy(c.items[1])

\* chatbot.py:172-181: what one item adds to tool_result_text
ItemText(it) ==
    CASE it.kind = "dict" -> IF it.hasText THEN Str(it.text) ELSE <<>>
      [] it.kind = "str"  -> it.text
      [] OTHER            -> <<>>

\* chatbot.py:171: for item in content_items
RECURSIVE ContentText(_)
ContentText(items) ==
    IF items = <<>> THEN <<>> ELSE ItemText(Head(items)) \o ContentText(Tail(items))

\* chatbot.py:184: result.get("text") is true
ResultTextTruthy(t) == t.present /\ (t.isStr => t.val # <<>>)

\* chatbot.py:164-185: tool_result_text before the emptiness check; isStr is
\* FALSE when result["text"] is taken and is no text
ExtractText(result) ==
    LET fromContent == IF ContentTruthy(result.content)
                       THEN ContentText(result.content.items) ELSE <<>>
    IN  IF fromContent = <<>> /\ ResultTextTruthy(result.text)
        THEN [isStr |-> result.text.isStr, val |-> result.text.val]
        ELSE [isStr |-> TRUE, val |-> fromContent]

\* the emptiness check without .strip()
IsBlank_NoStrip(text) == text = <<>>

\* chatbot.py:188: not tool_result_text or tool_result_text.strip() == ""
IsBlank(text) == text = <<>> \/ Strip(text) = <<>>

\* the text of an AttributeError (None.get, or .strip of a value that is no text)
AttributeErrorText == <<"w">>

\* chatbot.py:158-214: the content of the tool Message one dispatch leads to
RelayText(outcome) ==
    IF outcome.raised THEN ERROR_TEXT(outcome.e)
    ELSE IF outcome.result.isNone THEN ERROR_TEXT(AttributeErrorText)
    ELSE LET x == ExtractText(outcome.result)
         IN  IF ~x.isStr THEN ERROR_TEXT(AttributeErrorText)
             ELSE IF IsBlank(x.val) THEN NO_DATA_TEXT
             ELSE x.val

\* a result mapping that holds no text at all: no content or a content whose
\* items are mappings without "text", empty strings or values of another
\* kind, and no "text" of its own
Textless(result) ==
    /\ ~result.isNone
    /\ \A k \in 1..Len(result.content.items) :
          LET it == result.content.items[k]
          IN  ~it.hasText /\ it.text = <<>>
    /\ ~result.text.present

\* what the relay saw of one dispatch: the call raised, returned None, or
\* returned a mapping, with the text extracted from it
Seen(outcome) ==
    IF outcome.raised
    THEN [kind |-> "raised", isStr |-> TRUE, text |-> <<>>, textless |-> FALSE]
    ELSE IF outcome.result.isNone
    THEN [kind |-> "none", isStr |-> TRUE, text |-> <<>>, textless |-> FALSE]
    ELSE LET x == ExtractText(outcome.result)
         IN  [kind |-> "result", isStr |-> x.isStr, text |-> x.val,
              textless |-> Textless(outcome.result)]

\* has_data without the test for the "[ERROR]" marker
HasData_IgnoresError(msgs, tool_call_count) ==
    LET recent == IF tool_call_count > 0
                  THEN SubSeq(msgs, Len(msgs) - tool_call_count + 1, Len(msgs))
                  ELSE <<>>
    IN  \E k \in 1..Len(recent) :
            /\ recent[k].role = "tool"
            /\ Truthy(recent[k].content)
            /\ Strip(recent[k].content) # <<>>
            /\ ~Contains(recent[k].content, "[NO_DATA]")

\* chatbot.py:218-228: has_data over the last tool_call_count messages
HasData(msgs, tool_call_count) ==
    LET recent == IF tool_call_count > 0
                  THEN SubSeq(msgs, Len(msgs) - tool_call_count + 1, Len(msgs))
                  ELSE <<>>
    IN  \E k \in 1..Len(recent) :
            /\ recent[k].role = "tool"
            /\ Truthy(recent[k].content)
            /\ Strip(recent[k].content) # <<>>
            /\ ~Contains(recent[k].content, "[NO_DATA]")
            /\ ~Contains(recent[k].content, "[ERROR]")

----------------------------------------------------------------------------
(* The session *)

IsUser(m) == m.role = "user"

\* the turn a transcript is in: the number of its user Messages
TurnOf(msgs) == Len(SelectSeq(msgs, IsUser))

NumTurns == TurnOf(messages)

\* a completion request as the LLM service sees it: with or without tools,
\* the turn and the length of the transcript it carries
Request(msgs, with_tools) ==
    [tools |-> with_tools, turn |-> TurnOf(msgs), len |-> Len(msgs)]

Init ==
    /\ pc = "connect"
    /\ messages = <<>>
    /\ user_input = <<>>
    /\ assistant_message = [content |-> PyNone, tool_calls |-> <<>>]
    /\ idx = 0
    /\ tool_results = <<>>
    /\ llm_log = <<>>
    /\ mcp_calls = 0
    /\ stdout = <<>>
    /\ closed = 0
    /\ error = "none"
    /\ LauncherNotRun

\* chatbot.py:253-255: the finally clause closes the connection
Finally ==
    /\ closed' = closed + 1
    /\ pc' = "exit"

\* an exception reaches the session's handler of a program that closes the
\* connection after the loop, not in a finally clause
Raise_Unclosed(what) ==
    /\ error' = what
    /\ pc' = "exit"
    /\ UNCHANGED closed

\* chatbot.py:251-255: an exception reaches the session's handler, which
\* reports it; the finally clause follows
Raise(what) ==
    /\ error' = what
    /\ Finally

\* chatbot.py:22
Connect ==
    /\ pc = "connect"
    /\ \/ /\ pc' = "list_tools"
          /\ UNCHANGED <<error, closed>>
       \/ Raise("connect")
    /\ UNCHANGED <<messages, user_input, assistant_message, idx, tool_results,
                   llm_log, mcp_calls, stdout>>
    /\ UNCHANGED launcher_vars

\* chatbot.py:26-56
ListTools ==
    /\ pc = "list_tools"
    /\ \/ /\ pc' = "input"
          /\ messages' = <<SystemMessage(SystemPrompt)>>
          /\ UNCHANGED <<error, closed>>
       \/ /\ Raise("list_tools")
          /\ UNCHANGED messages
    /\ UNCHANGED <<user_input, assistant_message, idx, tool_results,
                   llm_log, mcp_calls, stdout>>
    /\ UNCHANGED launcher_vars

\* the exit words compared without .lower()
ReadInput_CaseSensitive ==
    /\ pc = "input"
    /\ \/ /\ Raise("input")
          /\ UNCHANGED <<messages, user_input, llm_log>>
       \/ \E line \in InputLines :
            LET u == Strip(line) IN
            /\ user_input' = u
            /\ UNCHANGED error
            /\ IF u \in exit_words
               THEN /\ Finally
                    /\ UNCHANGED <<messages, llm_log>>
               ELSE IF u = <<>>
               THEN /\ pc' = "input"
                    /\ UNCHANGED <<messages, llm_log, closed>>
               ELSE /\ Len(messages) < MaxMessages
                    /\ messages' = Append(messages, UserMessage(u))
                    /\ llm_log' = Append(llm_log, Request(messages', TRUE))
                    /\ pc' = "await1"
                    /\ UNCHANGED closed
    /\ UNCHANGED <<assistant_message, idx, tool_results, mcp_calls, stdout>>
    /\ UNCHANGED launcher_vars

\* chatbot.py:62-78: one line of input, up to the first completion request
ReadInput ==
    /\ pc = "input"
    /\ \/ /\ Raise("input")
          /\ UNCHANGED <<messages, user_input, llm_log>>
       \/ \E line \in InputLines :
            LET u == Strip(line) IN
            /\ user_input' = u
            /\ UNCHANGED error
            /\ IF Lower(u) \in exit_words
               THEN /\ Finally
                    /\ UNCHANGED <<messages, llm_log>>
               ELSE IF u = <<>>
               THEN /\ pc' = "input"
                    /\ UNCHANGED <<messages, llm_log, closed>>
               ELSE /\ Len(messages) < MaxMessages
                    /\ messages' = Append(messages, UserMessage(u))
                    /\ llm_log' = Append(llm_log, Request(messages', TRUE))
                    /\ pc' = "await1"
                    /\ UNCHANGED closed
    /\ UNCHANGED <<assistant_message, idx, tool_results, mcp_calls, stdout>>
    /\ UNCHANGED launcher_vars

\* chatbot.py:150: the for loop over the tool calls starts
StartToolLoop ==
    /\ idx' = 1
    /\ tool_results' = <<>>
    /\ pc' = "tool_loop"

\* chatbot.py:102: the first response has a text and no tool calls
NeedsReminder(am) == Truthy(am.content) /\ am.tool_calls = <<>>

\* chatbot.py:81-150: the first completion returns
Completion1Returns ==
    /\ pc = "await1"
    /\ \/ /\ Raise("completion")
          /\ UNCHANGED <<messages, assistant_message, idx, tool_results, llm_log, stdout>>
       \/ \E am \in Responses(MaxCalls - mcp_calls) :
            LET stored == Append(messages, AssistantEntry(am)) IN
            /\ assistant_message' = am
            /\ UNCHANGED <<error, closed>>
            /\ IF NeedsReminder(am)
               THEN IF MatchesKeyword(user_input)
                    THEN /\ messages' = Append(stored, SystemMessage(UseToolsReminder))
                         /\ llm_log' = Append(llm_log, Request(messages', TRUE))
                         /\ pc' = "await2"
                         /\ UNCHANGED <<idx, tool_results, stdout>>
                    ELSE /\ messages' = stored
                         /\ stdout' = Append(stdout, Str(am.content))
                         /\ pc' = "input"
                         /\ UNCHANGED <<idx, tool_results, llm_log>>
               ELSE IF am.tool_calls # <<>>
               THEN /\ messages' = stored
                    /\ StartToolLoop
                    /\ UNCHANGED <<llm_log, stdout>>
               ELSE /\ messages' = stored
                    /\ pc' = "input"
                    /\ UNCHANGED <<idx, tool_results, llm_log, stdout>>
    /\ UNCHANGED <<user_input, mcp_calls>>
    /\ UNCHANGED launcher_vars

\* the reminder as a loop: a second response without tool calls is reminded again
Completion2Returns_Retries ==
    /\ pc = "await2"
    /\ \/ /\ Raise("completion")
          /\ UNCHANGED <<messages, assistant_message, idx, tool_results, llm_log, stdout>>
       \/ \E am \in Responses(MaxCalls - mcp_calls) :
            /\ assistant_message' = am
            /\ UNCHANGED <<error, closed>>
            /\ IF am.tool_calls = <<>>
               THEN /\ messages' = messages
                    /\ llm_log' = Append(llm_log, Request(messages', TRUE))
                    /\ pc' = "await2"
                    /\ UNCHANGED <<idx, tool_results, stdout>>
               ELSE /\ messages' = [messages EXCEPT ![Len(messages)] = AssistantEntry(am)]
                    /\ StartToolLoop
                    /\ UNCHANGED <<stdout, llm_log>>
    /\ UNCHANGED <<user_input, mcp_calls>>
    /\ UNCHANGED launcher_vars

\* the second response is not stored: the tool loop runs with the reminder as
\* the last entry of the transcript
Completion2Returns_NotStored ==
    /\ pc = "await2"
    /\ \/ /\ Raise("completion")
          /\ UNCHANGED <<messages, assistant_message, idx, tool_results, stdout>>
       \/ \E am \in Responses(MaxCalls - mcp_calls) :
            /\ assistant_message' = am
            /\ messages' = messages
            /\ UNCHANGED <<error, closed>>
            /\ IF am.tool_calls = <<>>
               THEN /\ stdout' = Append(stdout, Str(am.content))
                    /\ pc' = "input"
                    /\ UNCHANGED <<idx, tool_results>>
               ELSE /\ StartToolLoop
                    /\ UNCHANGED stdout
    /\ UNCHANGED <<user_input, llm_log, mcp_calls>>
    /\ UNCHANGED launcher_vars

\* chatbot.py:122-150: the completion asked for after the reminder returns
Completion2Returns ==
    /\ pc = "await2"
    /\ \/ /\ Raise("completion")
          /\ UNCHANGED <<messages, assistant_message, idx, tool_results, stdout>>
       \/ \E am \in Responses(MaxCalls - mcp_calls) :
            /\ assistant_message' = am
            /\ messages' = [messages EXCEPT ![Len(messages)] = AssistantEntry(am)]
            /\ UNCHANGED <<error, closed>>
            /\ IF am.tool_calls = <<>>
               THEN /\ stdout' = Append(stdout, Str(am.content))
                    /\ pc' = "input"
                    /\ UNCHANGED <<idx, tool_results>>
               ELSE /\ StartToolLoop
                    /\ UNCHANGED stdout
    /\ UNCHANGED <<user_input, llm_log, mcp_calls>>
    /\ UNCHANGED launcher_vars

\* chatbot.py:152-160: the arguments of the next tool call are parsed and the
\* call is dispatched
DispatchTool ==
    /\ pc = "tool_loop"
    /\ idx <= Len(assistant_message.tool_calls)
    /\ IF JsonLoadsRaises(assistant_message.tool_calls[idx].arguments)
       THEN /\ Raise("json")
            /\ UNCHANGED mcp_calls
       ELSE /\ mcp_calls' = mcp_calls + 1
            /\ pc' = "await_tool"
            /\ UNCHANGED <<error, closed>>
    /\ UNCHANGED <<messages, user_input, assistant_message, idx, tool_results,
                   llm_log, stdout>>
    /\ UNCHANGED launcher_vars

\* the except clause of chatbot.py:206 without its messages.append
ToolReturns_SilentOnRaise ==
    /\ pc = "await_tool"
    /\ \E outcome \in CallOutcomes :
         /\ messages' = IF outcome.raised THEN messages
                         ELSE Append(messages,
                                ToolMessage(assistant_message.tool_calls[idx], RelayText(outcome)))
         /\ tool_results' = Append(tool_results, Seen(outcome))
    /\ idx' = idx + 1
    /\ pc' = "tool_loop"
    /\ UNCHANGED <<user_input, assistant_message, llm_log, mcp_calls, stdout,
                   closed, error>>
    /\ UNCHANGED launcher_vars

\* call_tool outside the try block: its exception reaches the session's handler
ToolReturns_Propagates ==
    /\ pc = "await_tool"
    /\ \E outcome \in CallOutcomes :
         IF outcome.raised
         THEN /\ Raise("call_tool")
              /\ UNCHANGED <<messages, tool_results, idx>>
         ELSE /\ messages' = Append(messages,
                    ToolMessage(assistant_message.tool_calls[idx], RelayText(outcome)))
              /\ tool_results' = Append(tool_results, Seen(outcome))
              /\ idx' = idx + 1
              /\ pc' = "tool_loop"
              /\ UNCHANGED <<closed, error>>
    /\ UNCHANGED <<user_input, assistant_message, llm_log, mcp_calls, stdout>>
    /\ UNCHANGED launcher_vars

\* the results arrive for the calls in the opposite order
ToolReturns_LastFirst ==
    /\ pc = "await_tool"
    /\ \E outcome \in CallOutcomes :
         /\ messages' = Append(messages,
                ToolMessage(assistant_message.tool_calls[
                                Len(assistant_message.tool_calls) + 1 - idx],
                            RelayText(outcome)))
         /\ tool_results' = Append(tool_results, Seen(outcome))
    /\ idx' = idx + 1
    /\ pc' = "tool_loop"
    /\ UNCHANGED <<user_input, assistant_message, llm_log, mcp_calls, stdout,
                   closed, error>>
    /\ UNCHANGED launcher_vars

\* chatbot.py:160-214: call_tool returns or raises, the tool Message is appended
ToolReturns ==
    /\ pc = "await_tool"
    /\ \E outcome \in CallOutcomes :
         /\ messages' = Append(messages,
                ToolMessage(assistant_message.tool_calls[idx], RelayText(outcome)))
         /\ tool_results' = Append(tool_results, Seen(outcome))
    /\ idx' = idx + 1
    /\ pc' = "tool_loop"
    /\ UNCHANGED <<user_input, assistant_message, llm_log, mcp_calls, stdout,
                   closed, error>>
    /\ UNCHANGED launcher_vars

\* chatbot.py:216-241: after the loop, the reminder if no call returned data,
\* and the final completion request
RequestFinal ==
    /\ pc = "tool_loop"
    /\ idx > Len(assistant_message.tool_calls)
    /\ messages' = IF HasData(messages, Len(assistant_message.tool_calls))
                   THEN messages
                   ELSE Append(messages, SystemMessage(NoDataReminder))
    /\ llm_log' = Append(llm_log, Request(messages', FALSE))
    /\ pc' = "await_final"
    /\ UNCHANGED <<user_input, assistant_message, idx, tool_results, mcp_calls,
                   stdout, closed, error>>
    /\ UNCHANGED launcher_vars

\* chatbot.py:243-249: the final completion returns
FinalReturns ==
    /\ pc = "await_final"
    /\ \/ /\ Raise("completion")
          /\ UNCHANGED <<messages, tool_results, stdout>>
       \/ \E c \in FinalContents :
            /\ messages' = Append(messages, FinalEntry(c))
            /\ stdout' = Append(stdout, Str(c))
            /\ tool_results' = <<>>
            /\ pc' = "input"
            /\ UNCHANGED <<error, closed>>
    /\ UNCHANGED <<user_input, assistant_message, idx, llm_log, mcp_calls>>
    /\ UNCHANGED launcher_vars

Next ==
    \/ Connect
    \/ ListTools
    \/ ReadInput
    \/ Completion1Returns
    \/ Completion2Returns
    \/ DispatchTool
    \/ ToolReturns
    \/ RequestFinal
    \/ FinalReturns

Spec == Init /\ [][Next]_vars

TypeOK ==
    /\ pc \in {"connect", "list_tools", "input", "await1", "await2", "tool_loop",
               "await_tool", "await_final", "exit"}
    /\ closed \in 0..1
    /\ mcp_calls \in 0..MaxCalls

----------------------------------------------------------------------------
(* The running turn: the part of the transcript after its last user        *)
(* Message.                                                                *)

\* a turn has started
HasTurn == llm_log # <<>>

LastUser ==
    CHOOSE k \in 1..Len(messages) :
        IsUser(messages[k]) /\ \A j \in (k + 1)..Len(messages) : ~IsUser(messages[j])

TurnRange == (LastUser + 1)..Len(messages)

\* positions of the tool Messages of the turn
ToolIdx == { k \in TurnRange : messages[k].role = "tool" }

\* the ToolCalls issued in the turn: those of its assistant Messages
IssuedCalls ==
    UNION { { messages[k].tool_calls[j] : j \in 1..Len(messages[k].tool_calls) } :
            k \in { n \in TurnRange : messages[n].role = "assistant" } }

\* the tool Messages of the turn that answer the ToolCall tc
AnswersTo(tc) == { k \in ToolIdx : messages[k].tool_call_id = tc.id }

\* a completion request has been issued and has not returned
AwaitingCompletion == pc \in {"await1", "await2", "await_final"}

\* position of the assistant Message whose ToolCalls the running tool loop
\* executes: the last one of the transcript that carries ToolCalls
Caller ==
    CHOOSE k \in 1..Len(messages) :
        /\ messages[k].role = "assistant" /\ messages[k].tool_calls # <<>>
        /\ \A j \in (k + 1)..Len(messages) : messages[j].tool_calls = <<>>

\* the k-th entry after the assistant Message at position c is a tool Message
HasReply(c, k) == c + k <= Len(messages) /\ messages[c + k].role = "tool"

Reply(c, k) == messages[c + k]

\* a text with no visible character: empty, or whitespace only
OnlyWhitespace(text) == \A k \in 1..Len(text) : text[k] = "sp"

ErrorSentinels == { ERROR_TEXT(e) : e \in ExceptionTexts \cup {AttributeErrorText} }

IsSentinel(content) == content = NO_DATA_TEXT \/ content \in ErrorSentinels

\* the relay saw real data: a mapping whose extracted text is a text that is
\* neither empty nor whitespace
RealData(seen) == seen.kind = "result" /\ seen.isStr /\ ~OnlyWhitespace(seen.text)

----------------------------------------------------------------------------
(* C1: whenever a completion request is outstanding, every ToolCall of the *)
(* turn has exactly one tool Message with its identifier in the turn's     *)
(* part of the transcript: no completion request is issued while a         *)
(* ToolCall of the turn is unanswered.                                     *)
C1_ToolCallsAnsweredBeforeRequest ==
    AwaitingCompletion =>
        \A tc \in IssuedCalls : Cardinality(AnswersTo(tc)) = 1

\* the final request is outstanding after two ToolCalls, the first of which raised
C1_Witness ==
    /\ pc = "await_final"
    /\ Len(assistant_message.tool_calls) = 2
    /\ tool_results[1].kind = "raised"
    /\ Cardinality(ToolIdx) = 2

(* C2: when a turn is over (the loop is back at the prompt, or the session *)
(* has ended), the identifiers of the turn's tool Messages are exactly the *)
(* identifiers of the ToolCalls the assistant issued in it: none omitted,  *)
(* none twice, whatever the argument payloads.                             *)
C2_IdsRoundTrip ==
    (pc \in {"input", "exit"} /\ HasTurn) =>
        /\ { messages[k].tool_call_id : k \in ToolIdx } = { tc.id : tc \in IssuedCalls }
        /\ Cardinality(ToolIdx) = Cardinality(IssuedCalls)

(* C3: when the final completion request is issued and every tool Message  *)
(* of the turn is empty, an error sentinel or a no-data sentinel, the      *)
(* corrective system Message is the last entry of the transcript the       *)
(* request carries, directly after the last tool Message.                  *)
C3_ReminderWhenNoData ==
    (pc = "await_final"
       /\ \A k \in ToolIdx :
            OnlyWhitespace(messages[k].content) \/ IsSentinel(messages[k].content))
    => /\ messages[Len(messages)] = SystemMessage(NoDataReminder)
       /\ messages[Len(messages) - 1].role = "tool"
       /\ llm_log[Len(llm_log)] = Request(messages, FALSE)

\* two ToolCalls, one raised and one returned nothing, and the final request
\* carries the reminder
C3_Witness ==
    /\ pc = "await_final"
    /\ Len(tool_results) = 2
    /\ tool_results[1].kind = "raised"
    /\ tool_results[2].kind = "result" /\ OnlyWhitespace(tool_results[2].text)
    /\ messages[Len(messages)] = SystemMessage(NoDataReminder)

(* C4: when the final completion request is issued and at least one tool   *)
(* call of the turn returned real data (any text that is neither empty nor *)
(* whitespace), the corrective system Message has not been injected.       *)
C4_NoReminderWhenData ==
    (pc = "await_final" /\ \E k \in 1..Len(tool_results) : RealData(tool_results[k]))
    => messages[Len(messages)].role # "system"

(* C5: a call_tool that raises is caught for that call only: the tool      *)
(* Message that answers the call carries the call's identifier and the     *)
(* [ERROR] sentinel, every ToolCall of the turn has had its dispatch when   *)
(* the final completion is requested, and the failure never reaches the    *)
(* session's handler.                                                      *)
C5_DispatchFailureCaught ==
    /\ error # "call_tool"
    /\ pc = "await_final" => Len(tool_results) = Len(assistant_message.tool_calls)
    /\ \A k \in 1..Len(tool_results) :
         tool_results[k].kind = "raised" =>
            LET c == Caller IN
            /\ HasReply(c, k)
            /\ Reply(c, k).tool_call_id = assistant_message.tool_calls[k].id
            /\ Reply(c, k).content \in ErrorSentinels

\* the first of two ToolCalls raised, the second was dispatched and returned
\* data, and the final completion is requested
C5_Witness ==
    /\ pc = "await_final"
    /\ Len(tool_results) = 2
    /\ tool_results[1].kind = "raised"
    /\ RealData(tool_results[2])
    /\ Reply(Caller, 1).content \in ErrorSentinels

(* C6: no failure while handling a single ToolCall reaches the session's   *)
(* handler: the session never ends on the parsing of a ToolCall's          *)
(* arguments.                                                              *)
C6_NoToolFailureIsFatal == error # "json"

(* C7: a result whose extracted text is empty or whitespace-only (among    *)
(* them every result that holds no text at all) is answered by a tool      *)
(* Message with the call's identifier whose text is the [NO_DATA]          *)
(* sentinel.                                                               *)
C7_BlankResultIsNoData ==
    \A k \in 1..Len(tool_results) :
        LET r == tool_results[k] IN
        (r.kind = "result" /\ (r.textless \/ (r.isStr /\ OnlyWhitespace(r.text)))) =>
            LET c == Caller IN
            /\ HasReply(c, k)
            /\ Reply(c, k).tool_call_id = assistant_message.tool_calls[k].id
            /\ Reply(c, k).content = NO_DATA_TEXT

\* a whitespace-only text was extracted and answered with the sentinel
C7_Witness ==
    /\ pc = "tool_loop"
    /\ Len(tool_results) = 1
    /\ tool_results[1].kind = "result"
    /\ tool_results[1].text = <<"sp">>
    /\ Reply(Caller, 1).content = NO_DATA_TEXT

(* C8: a call_tool that returns None is answered with the [NO_DATA]        *)
(* sentinel, and the [ERROR] sentinel answers only a call_tool that        *)
(* raised.                                                                 *)
C8_AbsentResultIsNoData ==
    \A k \in 1..Len(tool_results) :
        LET c == Caller IN
        /\ tool_results[k].kind = "none" =>
              HasReply(c, k) /\ Reply(c, k).content = NO_DATA_TEXT
        /\ (HasReply(c, k) /\ Reply(c, k).content \in ErrorSentinels) =>
              tool_results[k].kind = "raised"

(* C9: when a turn is over whose input matches the keyword heuristic and   *)
(* whose first completion carried no tool calls, whatever its text, the    *)
(* reminder had been injected and a second completion with tools had been  *)
(* requested over the transcript that holds it.                            *)
C9_ReminderWhenNoToolCalls ==
    (/\ pc = "input"
     /\ HasTurn
     /\ MatchesKeyword(messages[LastUser].content)
     /\ LastUser < Len(messages)
     /\ messages[LastUser + 1].tool_calls = <<>>)
    => \E j \in 1..Len(llm_log) :
          llm_log[j] = [tools |-> TRUE, turn |-> NumTurns, len |-> LastUser + 2]

\* the completion requests of turn t
Reqs(t) == SelectSeq(llm_log, LAMBDA r : r.turn = t)

\* the running turn has ended: the loop is back at the prompt, or left it
TurnComplete == pc = "input" \/ (pc = "exit" /\ error \in {"none", "input"})

(* C10: a turn issues at most three completion requests: the first with    *)
(* tools, over the transcript that ends with the user Message; at most one *)
(* more with tools, the second; and one without tools, the last, which is  *)
(* issued only after every ToolCall of the turn has its tool Message and,  *)
(* in a turn that has ended, whenever tool calls were executed.  Every     *)
(* tool Message stands for one dispatch: no call_tool is repeated.         *)
C10_AtMostThreeRequests ==
    /\ HasTurn =>
         LET q == Reqs(NumTurns) IN
         /\ Len(q) \in 1..3
         /\ q[1] = [tools |-> TRUE, turn |-> NumTurns, len |-> LastUser]
         /\ \A j \in 2..Len(q) : q[j].tools => j = 2
         /\ \A j \in 1..Len(q) :
              ~q[j].tools =>
                 /\ j = Len(q)
                 /\ ToolIdx # {}
                 /\ \A tc \in IssuedCalls : Cardinality(AnswersTo(tc)) = 1
         /\ (TurnComplete /\ ToolIdx # {}) => ~q[Len(q)].tools
    /\ mcp_calls = Cardinality({ k \in 1..Len(messages) : messages[k].role = "tool" })
                   + (IF pc = "await_tool" THEN 1 ELSE 0)

\* a turn with the three requests: the first, the one after the reminder, the final
C10_Witness ==
    /\ pc = "await_final"
    /\ Len(Reqs(NumTurns)) = 3
    /\ Reqs(NumTurns)[2].tools
    /\ ~Reqs(NumTurns)[3].tools

----------------------------------------------------------------------------
\* the positions of a turn's steps: from the user Message to Done
InTurn == pc \in {"await1", "await2", "tool_loop", "await_tool", "await_final"}

\* s is an initial part of t
IsPrefix(s, t) == Len(s) <= Len(t) /\ SubSeq(t, 1, Len(s)) = s

(* C11: during a turn the transcript is append-only: every step taken from *)
(* a position inside a turn leaves each entry already in the transcript at *)
(* its position with its content; entries are only added at the end.       *)
C11_AppendOnly == [][InTurn => IsPrefix(messages, messages')]_vars

(* C12: the session has ended exactly when the connection has been closed, *)
(* and it is closed once; a failure caught at session scope is recorded    *)
(* (reported) and ends the session; once the session has ended no step is  *)
(* possible any more, so no completion request and no tool dispatch        *)
(* follows the close.                                                      *)
C12_ClosedExactlyOnce ==
    /\ closed \in {0, 1}
    /\ (pc = "exit") <=> (closed = 1)
    /\ error # "none" => pc = "exit"
    /\ pc = "exit" => ~ENABLED Next

\* the final completion of a turn with tool calls failed and the session
\* ended with the connection closed
C12_Witness ==
    /\ pc = "exit"
    /\ error = "completion"
    /\ tool_results # <<>>
    /\ closed = 1

\* number of tool Messages in the transcript
NumToolMessages == Cardinality({ k \in 1..Len(messages) : messages[k].role = "tool" })

\* call_tool dispatches that have not returned
InFlightDispatches == mcp_calls - NumToolMessages

(* C13: the ToolCalls of a response are dispatched one at a time in the    *)
(* order of the response: while the loop runs, the calls before the        *)
(* current one each have their tool Message, in the order of the           *)
(* ToolCalls, directly after the assistant Message and with nothing after  *)
(* them; at most one dispatch is in flight, and none while a completion    *)
(* request is outstanding.                                                 *)
C13_SequentialDispatch ==
    /\ InFlightDispatches = (IF pc = "await_tool" THEN 1 ELSE 0)
    /\ pc \in {"tool_loop", "await_tool"} =>
         LET c == Caller IN
         /\ messages[c].tool_calls = assistant_message.tool_calls
         /\ Len(tool_results) = idx - 1
         /\ Len(messages) = c + idx - 1
         /\ \A k \in 1..(idx - 1) :
               /\ HasReply(c, k)
               /\ Reply(c, k).tool_call_id = assistant_message.tool_calls[k].id

\* the second of two ToolCalls is in flight after the first was answered; the
\* identifiers are not in ascending order
C13_Witness ==
    /\ pc = "await_tool"
    /\ idx = 2
    /\ assistant_message.tool_calls[1].id = 2
    /\ Reply(Caller, 1).tool_call_id = 2

\* no word of the text is a keyword, whatever its letter case
NoKeyword(text) == \A k \in 1..Len(text) : LowerTok(text[k]) \notin bible_keywords

(* C14: in a turn whose input matches no keyword and whose first           *)
(* completion carried no tool calls, that completion request is the only   *)
(* one: the transcript ends with the user Message and the assistant        *)
(* Message, no system Message was injected, no tool was dispatched, and    *)
(* the loop is back at the prompt (or the session has ended there).        *)
C14_PlainTurnIsOneRequest ==
    (/\ HasTurn
     /\ NoKeyword(messages[LastUser].content)
     /\ LastUser < Len(messages)
     /\ messages[LastUser + 1].tool_calls = <<>>)
    => /\ Len(messages) = LastUser + 1
       /\ messages[LastUser + 1].role = "assistant"
       /\ Len(Reqs(NumTurns)) = 1
       /\ ToolIdx = {}
       /\ InFlightDispatches = 0
       /\ pc \in {"input", "exit"}

\* the turn of the input "hello" has ended with the first response's text
C14_Witness ==
    /\ pc = "input"
    /\ HasTurn
    /\ messages[LastUser].content = <<"hello">>
    /\ messages[Len(messages)] = FinalEntry(<<"w">>)
    /\ Len(messages) = LastUser + 1
    /\ stdout = << <<"w">> >>

\* the trimmed line is one of quit/exit/q in any letter case
IsExitWord(u) == Lower(u) \in exit_words

(* C15: a line read at the prompt that is empty after trimming, or one of  *)
(* quit/exit/q in any letter case, leaves the transcript unchanged and     *)
(* issues no completion request and no dispatch; after the empty line the  *)
(* loop is at the prompt again, after the exit word the session has ended  *)
(* with the connection closed.                                             *)
C15_EmptyAndExitInput ==
    [][(pc = "input" /\ error' = error
          /\ (user_input' = <<>> \/ IsExitWord(user_input')))
       => /\ messages' = messages
          /\ llm_log' = llm_log
          /\ mcp_calls' = mcp_calls
          /\ IF IsExitWord(user_input')
             THEN pc' = "exit" /\ closed' = closed + 1
             ELSE pc' = "input" /\ closed' = closed]_vars

\* the line " Exit" ended a session that had a turn, and nothing was added
C15_Witness ==
    /\ pc = "exit"
    /\ error = "none"
    /\ user_input = <<"Exit">>
    /\ closed = 1
    /\ HasTurn
    /\ messages[Len(messages)].role = "assistant"

(* C16: whenever the loop is back at the prompt after a turn, that turn    *)
(* and each turn before it has printed exactly one answer, and the answer  *)
(* of the last turn is the text of the response that ended it: no turn     *)
(* ends silently and none prints twice.                                    *)
C16_OneAnswerPerTurn ==
    (pc = "input" /\ HasTurn) =>
        /\ Len(stdout) = NumTurns
        /\ stdout[Len(stdout)] = Str(messages[Len(messages)].content)

\* the identifiers of the ToolCalls of the entry at position c
CallIds(c) == { messages[c].tool_calls[j].id : j \in 1..Len(messages[c].tool_calls) }

(* C17: every tool Message of the transcript stands in an unbroken run of  *)
(* tool Messages that starts directly after an assistant Message with      *)
(* ToolCalls, and its identifier is the identifier of one of that          *)
(* Message's ToolCalls; also when the ToolCalls came with the second       *)
(* response, after the reminder.                                           *)
C17_ToolMessagesFollowCaller ==
    \A k \in 1..Len(messages) :
        messages[k].role = "tool" =>
            \E c \in 1..(k - 1) :
                /\ messages[c].role = "assistant"
                /\ messages[c].tool_calls # <<>>
                /\ \A j \in (c + 1)..k : messages[j].role = "tool"
                /\ messages[k].tool_call_id \in CallIds(c)

\* the ToolCalls came with the second response and two of them were answered
C17_Witness ==
    /\ pc = "tool_loop"
    /\ Len(Reqs(NumTurns)) = 2
    /\ messages[LastUser + 1].role = "assistant"
    /\ messages[LastUser + 1].tool_calls = <<>>
    /\ Len(messages[LastUser + 2].tool_calls) = 2
    /\ Cardinality(ToolIdx) = 2

----------------------------------------------------------------------------
(* create_py_ini, fix_py_launcher.py:31-86 *)

\* number of lines of the py.ini the launcher finds
MaxLines == 3

\* section headers and settings a py.ini holds
Headers == { "[defaults]", "[commands]" }
SettingLines == { "python=3.13", "x=y" }

LineSeqs == UNION { [1..n -> Headers \cup SettingLines] : n \in 0..MaxLines }

\* the text of the lines, each line but the last followed by a newline
RECURSIVE JoinLines(_)
JoinLines(ls) ==
    IF ls = <<>> THEN <<>>
    ELSE IF Len(ls) = 1 THEN <<ls[1]>>
    ELSE <<ls[1], "\n">> \o JoinLines(Tail(ls))

\* the texts of the file: with or without a newline at the end
FileTexts ==
    { JoinLines(ls) : ls \in LineSeqs }
    \cup { JoinLines(ls) \o <<"\n">> : ls \in LineSeqs \ { <<>> } }

\* fix_py_launcher.py:53-56: "[defaults]\npython=3.11\n\n"
DefaultsContent == <<"[defaults]", "\n", "python=3.11", "\n", "\n">>

\* fix_py_launcher.py:52-60: the text that is written
new_content(existing) ==
    IF existing # <<>> /\ ~Contains(existing, "[defaults]")
    THEN existing \o <<"\n">> \o DefaultsContent
    ELSE DefaultsContent

\* fix_py_launcher.py:12-29
get_py_ini_path ==
    IF "LOCALAPPDATA" \in environ THEN "user"
    ELSE IF "WINDIR" \in environ THEN "system"
    ELSE "None"

LauncherInit ==
    /\ pc = "connect"
    /\ messages = <<>>
    /\ user_input = <<>>
    /\ assistant_message = [content |-> PyNone, tool_calls |-> <<>>]
    /\ idx = 0
    /\ tool_results = <<>>
    /\ llm_log = <<>>
    /\ mcp_calls = 0
    /\ stdout = <<>>
    /\ closed = 0
    /\ error = "none"
    /\ ini_pc = "start"
    /\ environ \in SUBSET { "LOCALAPPDATA", "WINDIR" }
    /\ ini_path = "None"
    /\ py_ini \in { NoFile } \cup FileTexts
    /\ existing_content = <<>>
    /\ ini_result = "none"
    /\ original = py_ini

\* fix_py_launcher.py:33-40
FindPath ==
    /\ ini_pc = "start"
    /\ ini_path' = get_py_ini_path
    /\ IF ini_path' = "None"
       THEN ini_result' = "False" /\ ini_pc' = "done"
       ELSE ini_result' = ini_result /\ ini_pc' = "read"
    /\ UNCHANGED <<environ, py_ini, existing_content, original>>
    /\ UNCHANGED chatbot_vars

\* fix_py_launcher.py:42-50: the file is read if it exists; a failed read
\* leaves existing_content empty
ReadExisting ==
    /\ ini_pc = "read"
    /\ IF py_ini = NoFile
       THEN existing_content' = <<>>
       ELSE existing_content' \in { py_ini, <<>> }
    /\ ini_pc' = "write"
    /\ UNCHANGED <<environ, ini_path, py_ini, ini_result, original>>
    /\ UNCHANGED chatbot_vars

\* fix_py_launcher.py:52-86: the new text is written; a failure leaves the
\* file as it was or, when it comes after the file was opened, empty
WriteFile ==
    /\ ini_pc = "write"
    /\ \/ /\ py_ini' = new_content(existing_content)
          /\ ini_result' = "True"
       \/ /\ py_ini' \in { py_ini, <<>> }
          /\ ini_result' = "False"
    /\ ini_pc' = "done"
    /\ UNCHANGED <<environ, ini_path, existing_content, original>>
    /\ UNCHANGED chatbot_vars

LauncherNext ==
    \/ FindPath
    \/ ReadExisting
    \/ WriteFile

LauncherSpec == LauncherInit /\ [][LauncherNext]_vars

\* the section a line of the text stands in: the last header before it
SectionAt(text, k) ==
    IF \E j \in 1..(k - 1) : text[j] \in Headers
    THEN text[CHOOSE j \in 1..(k - 1) :
                 text[j] \in Headers /\ \A i \in (j + 1)..(k - 1) : text[i] \notin Headers]
    ELSE ""

\* the sections of a py.ini text
Sections(text) == { text[k] : k \in { j \in 1..Len(text) : text[j] \in Headers } }

\* the settings of a py.ini text, each with its section
Settings(text) ==
    { <<SectionAt(text, k), text[k]>> :
        k \in { j \in 1..Len(text) : text[j] \notin Headers \cup { "\n" } } }

\* the setting create_py_ini is there to replace
ReplacedSetting == <<"[defaults]", "python=3.13">>

(* C18: when create_py_ini has succeeded on a file that held settings,     *)
(* every section of the file is still in it, and so is every setting       *)
(* (other than the default version it sets), in its section, whether or    *)
(* not the file had a [defaults] section.                                  *)
C18_SettingsPreserved ==
    (ini_pc = "done" /\ ini_result = "True" /\ original # NoFile
       /\ Settings(original) # {})
    => /\ Sections(original) \subseteq Sections(py_ini)
       /\ (Settings(original) \ { ReplacedSetting }) \subseteq Settings(py_ini)

====
